---- MODULE Spec2Model ----
(***************************************************************************)
(* State-machine model of src/server.py: the /api-task handler (api_task)  *)
(* and the helpers it awaits, run against a model of the remote repository *)
(* provider, the optional generation service, the published site and the   *)
(* evaluation callback.                                                    *)
(*                                                                         *)
(* Every remote call is an await point: the coroutine issues the call      *)
(* (Issue) and resumes when the reply arrives (one action per call site).  *)
(***************************************************************************)
EXTENDS Integers, Sequences, FiniteSets, TLC

VARIABLES
    cfg,        \* process configuration read from the environment (lines 10-14)
    body,       \* body[r]: the TaskPayload of request r
    st,         \* st[r]: the local variables and position of request r's coroutine
    inflight,   \* inflight[r]: the calls r has sent and not yet got the reply of, in order
    log,        \* log[r]: history of the remote calls r has issued, in order
    steps,      \* steps[r]: history of the pipeline steps r has entered, in order
    hub,        \* hub[name]: the provider's state of repository owner/name
    snap,       \* snap[r]: the files of r's repository when r's commit_bundle returned
    site,       \* the endpoints polled and notified. The published site: the seconds it
                \* takes to answer a GET, and when (seconds after the poll began) it
                \* starts answering 200, if it is steady. The evaluation URL: whether
                \* it is up
    year,       \* the calendar year last read from the clock
    faults,     \* number of remote calls that were answered with a failure
    nextId      \* the provider's next fresh commit / version identifier

vars == <<cfg, body, st, inflight, log, steps, hub, snap, site, year, faults, nextId>>

----------------------------------------------------------------------------
(* Bounds of the model *)

MaxFaults == 1      \* remote calls that may fail in one behaviour
MaxRollover == 1    \* new-year rollovers of the clock in one behaviour

(* Program constants *)

PollTimeoutS == 180     \* wait_for_200(pages_url, timeout_s=180)
PollSleepS == 3         \* asyncio.sleep(3)
PollClientTimeoutS == 15 \* httpx.AsyncClient(timeout=15)
MaxTries == 8           \* post_with_backoff(..., max_tries=8)
FirstDelay == 1         \* delay = 1
BackoffFactor == 2      \* delay *= 2

Reqs == {"r1", "r2"}

----------------------------------------------------------------------------
(* Python dicts keep insertion order: a dict is a sequence of <<key, value>> *)
(* pairs with distinct keys.                                                *)

Has(d, k) == \E i \in DOMAIN d : d[i][1] = k

\* d[k] = v
Put(d, k, v) ==
    IF Has(d, k)
    THEN [i \in DOMAIN d |-> IF d[i][1] = k THEN <<k, v>> ELSE d[i]]
    ELSE Append(d, <<k, v>>)

\* an assignment in place of setdefault: the later value wins
SetDefaultOverwriting(d, k, v) == Put(d, k, v)

\* d.setdefault(k, v)
SetDefault(d, k, v) == IF Has(d, k) THEN d ELSE Append(d, <<k, v>>)

RECURSIVE MergeDefaults(_, _)
\* for name, blob in src.items(): d.setdefault(name, blob)
MergeDefaults(d, src) ==
    IF src = <<>> THEN d
    ELSE MergeDefaults(SetDefault(d, Head(src)[1], Head(src)[2]), Tail(src))

----------------------------------------------------------------------------
(* Strings the code inspects are sequences of characters. *)

\* body.task.replace("/", "-")
RepoName(task) == [i \in DOMAIN task |-> IF task[i] = "/" THEN "-" ELSE task[i]]

PagesUrl(owner, repo) == <<"https://", owner, ".github.io/", repo, "/">>

RepoUrl(owner, repo) == <<"https://github.com/", owner, "/", repo>>

(* base64: the encoding of bytes b is the tagged value <<"b64", b>>;       *)
(* anything else is not valid base64 text.                                 *)
b64encode_bytes(b) == <<"b64", b>>

IsB64(x) == /\ Len(x) = 2
            /\ x[1] = "b64"

b64decode(x) == x[2]

(* A data URI is [scheme, sep, data]: DATA_URI_RE accepts                   *)
(* "data:<mime>;base64,<payload>" only.                                     *)
DATA_URI_RE(url) == /\ url.scheme = "data"
                    /\ url.sep = ";base64,"

AttOk(a) == /\ DATA_URI_RE(a.url)
            /\ IsB64(a.url.data)

\* only the first attachment is matched against DATA_URI_RE
ParseRaisesOnFirstOnly(attachments) == attachments # <<>> /\ ~AttOk(attachments[1])

\* parse_attachments raises ValueError on the first attachment that does not decode
ParseRaises(attachments) == \E i \in DOMAIN attachments : ~AttOk(attachments[i])

RECURSIVE ParseInto(_, _)
ParseInto(out, attachments) ==
    IF attachments = <<>> THEN out
    ELSE ParseInto(Put(out, Head(attachments).name, b64decode(Head(attachments).url.data)),
                   Tail(attachments))

parse_attachments(attachments) == ParseInto(<<>>, attachments)

----------------------------------------------------------------------------
(* Content: file contents are tagged values. *)

LICENSE == "LICENSE"
README == "README.md"
WORKFLOW == ".github/workflows/pages.yml"
INDEX == "index.html"
DATACSV == "data.csv"

Paths == {LICENSE, README, WORKFLOW, INDEX, DATACSV}

MIT_LICENSE(yr, owner) == <<"MIT", yr, owner>>

PAGES_WORKFLOW == <<"workflow">>

Readme(repo, task, round_i, brief, pages_url) == <<"readme", repo, task, round_i, brief, pages_url>>

\* "sum-of-sales" in b or ("sales" in b and "csv" in b), on the lowered brief
IsSalesBrief(brief) == brief \in {"sum-of-sales", "Sales from CSV"}

template_from_brief(brief, atts) ==
    IF IsSalesBrief(brief)
    THEN IF ~Has(atts, DATACSV)
         THEN << <<INDEX, <<"tmpl_sum_of_sales">> >>, <<DATACSV, <<"csv_default">> >> >>
         ELSE << <<INDEX, <<"tmpl_sum_of_sales">> >> >>
    ELSE << <<INDEX, <<"generic", brief>> >> >>

\* lines 310-313: files_text if truthy, else the template
GeneratedFiles(files_text, brief, att_bytes) ==
    IF files_text # <<>> THEN files_text ELSE template_from_brief(brief, att_bytes)

\* lines 310-317: the generated files, then the attachments merged in
BuildFiles(files_text, brief, att_bytes) ==
    MergeDefaults(GeneratedFiles(files_text, brief, att_bytes), att_bytes)

\* try_llm_generate's result for a parsed reply: the files only if index.html is among them
LlmResult(reply) == IF Has(reply, INDEX) THEN reply ELSE <<>>

----------------------------------------------------------------------------
(* Inputs *)

OWNER == "owner"

DataUri(b) == [scheme |-> "data", sep |-> ";base64,", data |-> b64encode_bytes(b)]

\* "data:text/plain,<percent-encoded>": a data URI, but not a base64 one
PercentUri == [scheme |-> "data", sep |-> ",", data |-> <<"pct", "p1">>]

\* "not-a-data-uri"
NotAUri == [scheme |-> "", sep |-> "", data |-> <<"raw", "p1">>]

\* "data:text/plain;base64,<text whose padding is wrong>": b64decode raises binascii.Error
BadPadUri == [scheme |-> "data", sep |-> ";base64,", data |-> <<"badpad", "p1">>]

Att(n, u) == [name |-> n, url |-> u]

AttLists ==
    { <<>>,
      << Att(DATACSV, DataUri(<<"bytes", "p1">>)) >>,
      << Att(INDEX, DataUri(<<"bytes", "p1">>)), Att(DATACSV, DataUri(<<"bytes", "p2">>)) >>,
      << Att(DATACSV, DataUri(<<"bytes", "p1">>)), Att(README, DataUri(<<"bytes", "p2">>)),
         Att(DATACSV, DataUri(<<"bytes", "p3">>)) >>,
      << Att(DATACSV, NotAUri) >>,
      << Att(INDEX, DataUri(<<"bytes", "p1">>)), Att(DATACSV, PercentUri) >>,
      << Att(INDEX, BadPadUri) >> }

Tasks == { <<"a", "/", "b">>, <<"c">> }

RepoNames == { RepoName(t) : t \in Tasks }

Briefs == {"sum-of-sales", "hello"}

GoodSecret == "s3cret"

Payload(secret, task, brief, atts) ==
    [email |-> "e@x", secret |-> secret, task |-> task, round |-> 1, nonce |-> "n0",
     brief |-> brief, evaluation_url |-> "https://eval", attachments |-> atts]

Bodies ==
    { Payload(GoodSecret, t, b, a) : t \in Tasks, b \in Briefs, a \in AttLists }
    \cup { Payload("wrong", <<"c">>, "hello", <<>>) }

\* the parsed "files" object of a generation reply
LlmReplies ==
    { << <<INDEX, <<"gen", "index">> >>, <<README, <<"gen", "readme">> >> >>,
      << <<DATACSV, <<"gen", "csv">> >>, <<INDEX, <<"gen", "index">> >> >>,
      << <<README, <<"gen", "readme">> >> >> }

Config(token, llm) ==
    [SECRET |-> GoodSecret, GITHUB_TOKEN |-> token, GITHUB_USERNAME |-> OWNER,
     LLM_URL |-> llm, LLM_AUTH |-> llm]

Configs == { Config("tok", ""), Config("tok", "llm"), Config("", "") }

----------------------------------------------------------------------------
(* The provider's state of one repository *)

NoSha == 0

NoFile == [content |-> <<>>, sha |-> NoSha]

NoRepo == [exists |-> FALSE, perm |-> "read", pages |-> "absent", head |-> NoSha,
           files |-> [p \in Paths |-> NoFile]]

\* a repository as POST /user/repos with auto_init leaves it: one README, no site
FreshRepo(id) == [exists |-> TRUE, perm |-> "read", pages |-> "absent", head |-> id,
                  files |-> [p \in Paths |-> IF p = README
                                             THEN [content |-> <<"auto_init">>, sha |-> id]
                                             ELSE NoFile]]

\* an older repository whose site is published from a branch
LegacyRepo(id) == [FreshRepo(id) EXCEPT !.pages = "legacy"]

FirstYear == 2025

----------------------------------------------------------------------------
(* Remote calls *)

Call(op, svc, repo, path, sha, data) ==
    [op |-> op, svc |-> svc, repo |-> repo, path |-> path, sha |-> sha, data |-> data]

IdleLocals ==
    [pc |-> "idle", generated |-> <<>>, files |-> <<>>, repo_name |-> <<>>, pages_url |-> <<>>,
     yr |-> 0, w |-> 0, sha |-> NoSha, commit_sha |-> NoSha, reply |-> "none",
     elapsed |-> 0, reachable |-> "none", tries |-> 0, delay |-> 0, delivered |-> "none",
     resp |-> <<>>, status |-> 0]

\* an exception leaves the handler: the request is answered with `code`
Fail(loc, code) == [loc EXCEPT !.pc = "failed", !.status = code]

\* the workflow written after the app files
CommitWritesWorkflowLast(owner, repo, files, brief, task, round_i, pages_url, yr) ==
    << <<LICENSE, MIT_LICENSE(yr, owner)>>,
       <<README, Readme(repo, task, round_i, brief, pages_url)>> >> \o files
    \o << <<WORKFLOW, PAGES_WORKFLOW>> >>

\* the app files written before the scaffolding
CommitWritesAppFirst(owner, repo, files, brief, task, round_i, pages_url, yr) ==
    files \o << <<LICENSE, MIT_LICENSE(yr, owner)>>,
                <<README, Readme(repo, task, round_i, brief, pages_url)>>,
                <<WORKFLOW, PAGES_WORKFLOW>> >>

\* commit_bundle's writes, in the order it issues them
CommitWrites(owner, repo, files, brief, task, round_i, pages_url, yr) ==
    << <<LICENSE, MIT_LICENSE(yr, owner)>>,
       <<README, Readme(repo, task, round_i, brief, pages_url)>>,
       <<WORKFLOW, PAGES_WORKFLOW>> >> \o files

WritesOf(r) ==
    CommitWrites(cfg.GITHUB_USERNAME, st[r].repo_name, st[r].files, body[r].brief,
                 body[r].task, body[r].round, st[r].pages_url, st[r].yr)

CallSites == {"llm", "repo_get", "repo_create", "perm", "pages_get", "pages_create",
              "pages_update", "file_get", "file_put", "poll", "notify"}

\* the request the coroutine of r sends at its current call site
CallAt(r) ==
    LET loc == st[r]
        repo == loc.repo_name
    IN CASE loc.pc = "llm" -> Call("POST", "llm", <<>>, "", NoSha, <<>>)
         [] loc.pc = "repo_get" -> Call("GET", "repos", repo, "", NoSha, <<>>)
         [] loc.pc = "repo_create" -> Call("POST", "user_repos", repo, "", NoSha, <<>>)
         [] loc.pc = "perm" -> Call("PUT", "perm", repo, "", NoSha, <<>>)
         [] loc.pc = "pages_get" -> Call("GET", "pages", repo, "", NoSha, <<>>)
         [] loc.pc = "pages_create" -> Call("POST", "pages", repo, "", NoSha, <<>>)
         [] loc.pc = "pages_update" -> Call("PUT", "pages", repo, "", NoSha, <<>>)
         [] loc.pc = "file_get" ->
                Call("GET", "contents", repo, WritesOf(r)[loc.w][1], NoSha, <<>>)
         [] loc.pc = "file_put" ->
                Call("PUT", "contents", repo, WritesOf(r)[loc.w][1], loc.sha,
                     b64encode_bytes(WritesOf(r)[loc.w][2]))
         [] loc.pc = "poll" -> Call("GET", "site", repo, "", NoSha, loc.pages_url)
         [] loc.pc = "notify" -> Call("POST", "eval", <<>>, "", NoSha, <<"json", loc.resp>>)

\* the history of calls: a call repeated unchanged (a poll, a retry) is recorded once
Logged(h, c) == IF h # <<>> /\ h[Len(h)] = c THEN h ELSE Append(h, c)

\* the next call sent without awaiting the previous one
NotAwaited(r) == TRUE

\* `await`: the coroutine sends its next call only when none of its calls is outstanding
Awaited(r) == inflight[r] = <<>>

Issue(r) ==
    /\ st[r].pc \in CallSites
    /\ Awaited(r)
    /\ inflight' = [inflight EXCEPT ![r] = Append(@, CallAt(r))]
    /\ log' = [log EXCEPT ![r] = Logged(@, CallAt(r))]
    /\ UNCHANGED <<cfg, body, st, steps, hub, snap, site, year, faults, nextId>>

\* the reply to the call r sent at call site `pc` has arrived
Replied(r, pc) ==
    /\ st[r].pc = pc
    /\ inflight[r] # <<>>
    /\ inflight' = [inflight EXCEPT ![r] = Tail(@)]
    /\ UNCHANGED <<cfg, body, log, site>>

(* What a remote service makes of a call: "ok", it answers as its state says;  *)
(* "err", it answers with a server error and does nothing; "exc", no answer    *)
(* arrives and the client raises a transport error.                            *)
Failures == IF faults < MaxFaults THEN {"err", "exc"} ELSE {}

Outcomes == {"ok"} \cup Failures

Count(o) == faults' = IF o = "ok" THEN faults ELSE faults + 1

Answer(o, status) == IF o = "ok" THEN status ELSE IF o = "err" THEN "500" ELSE "exc"

\* r.raise_for_status() raises on a 4xx or 5xx status; a transport error was raised by gh
Raises(status) == status \notin {"200", "201", "204"}

\* the coroutine resumes with the reply's status, at `loc`, having entered the steps `entered`
Resume(r, status, loc, entered) ==
    /\ st' = [st EXCEPT ![r] = [loc EXCEPT !.reply = status]]
    /\ steps' = [steps EXCEPT ![r] = @ \o entered]

----------------------------------------------------------------------------
(* api_task, up to its first await *)

\* lines 319-323: the bundle is complete, the repository name is derived
Generated(r, files_text) ==
    LET repo == RepoName(body[r].task)
    IN [st[r] EXCEPT !.pc = "repo_get",
                     !.generated = GeneratedFiles(files_text, body[r].brief,
                                                  parse_attachments(body[r].attachments)),
                     !.files = BuildFiles(files_text, body[r].brief,
                                          parse_attachments(body[r].attachments)),
                     !.repo_name = repo,
                     !.pages_url = PagesUrl(cfg.GITHUB_USERNAME, repo)]

\* the comparison of line 300 left out
SecretNotCompared(r) == TRUE

\* line 300
SecretMatches(r) == body[r].secret = cfg.SECRET

\* line 302
ConfigMissing == cfg.GITHUB_TOKEN = "" \/ cfg.GITHUB_USERNAME = ""

\* line 108
LlmConfigured == cfg.LLM_URL # "" /\ cfg.LLM_AUTH # ""

Begin(r) ==
    /\ st[r].pc = "idle"
    /\ IF ~SecretMatches(r)
       THEN Resume(r, "none", Fail(st[r], 403), <<"AuthCheck">>)
       ELSE IF ConfigMissing
       THEN Resume(r, "none", Fail(st[r], 500), <<"AuthCheck">>)
       ELSE IF ParseRaises(body[r].attachments)
       THEN Resume(r, "none", Fail(st[r], 500), <<"AuthCheck", "BuildBundle">>)
       ELSE IF LlmConfigured
       THEN Resume(r, "none", [st[r] EXCEPT !.pc = "llm"], <<"AuthCheck", "BuildBundle">>)
       ELSE Resume(r, "none", Generated(r, <<>>),
                   <<"AuthCheck", "BuildBundle", "EnsureRepository">>)
    /\ UNCHANGED <<cfg, body, inflight, log, hub, snap, site, year, faults, nextId>>

\* try_llm_generate: any failure, or a reply without index.html, is None
LlmReply(r) ==
    /\ Replied(r, "llm")
    /\ \E o \in Outcomes :
       \E reply \in IF o = "ok" THEN LlmReplies ELSE {<<>>} :
          /\ Count(o)
          /\ Resume(r, Answer(o, "200"), Generated(r, LlmResult(reply)),
                    <<"EnsureRepository">>)
    /\ UNCHANGED <<hub, snap, year, nextId>>

----------------------------------------------------------------------------
(* ensure_repo *)

Go(loc, entered) == [loc |-> loc, entered |-> entered]

Take(r, status, res) == Resume(r, status, res.loc, res.entered)

\* the create attempted after any lookup that is not a success
AfterRepoGetCreatingOnFailure(loc, status) ==
    IF status # "200" THEN Go([loc EXCEPT !.pc = "repo_create"], <<>>)
    ELSE Go([loc EXCEPT !.pc = "perm"], <<"ReconcilePermissions">>)

\* lines 179-190, after the GET
AfterRepoGet(loc, status) ==
    IF status = "404" THEN Go([loc EXCEPT !.pc = "repo_create"], <<>>)
    ELSE IF Raises(status) THEN Go(Fail(loc, 500), <<>>)
    ELSE Go([loc EXCEPT !.pc = "perm"], <<"ReconcilePermissions">>)

\* lines 181-187, after the POST
AfterRepoCreate(loc, status) ==
    IF Raises(status) THEN Go(Fail(loc, 500), <<>>)
    ELSE Go([loc EXCEPT !.pc = "perm"], <<"ReconcilePermissions">>)

RepoGetReply(r) ==
    /\ Replied(r, "repo_get")
    /\ \E o \in Outcomes :
          LET status == Answer(o, IF hub[st[r].repo_name].exists THEN "200" ELSE "404")
          IN /\ Count(o)
             /\ Take(r, status, AfterRepoGet(st[r], status))
    /\ UNCHANGED <<hub, snap, year, nextId>>

RepoCreateReply(r) ==
    /\ Replied(r, "repo_create")
    /\ \E o \in Outcomes :
          LET name == st[r].repo_name
              status == Answer(o, IF hub[name].exists THEN "422" ELSE "201")
          IN /\ Count(o)
             /\ hub' = IF status = "201" THEN [hub EXCEPT ![name] = FreshRepo(nextId)] ELSE hub
             /\ nextId' = IF status = "201" THEN nextId + 1 ELSE nextId
             /\ Take(r, status, AfterRepoCreate(st[r], status))
    /\ UNCHANGED <<snap, year>>

(* ensure_actions_write_permissions *)

\* lines 200-202: a status outside (200, 204) is printed; a transport error propagates
AfterPerm(loc, status) ==
    IF status = "exc" THEN Go(Fail(loc, 500), <<>>)
    ELSE Go([loc EXCEPT !.pc = "pages_get"], <<"ReconcileSitePublishing">>)

PermReply(r) ==
    /\ Replied(r, "perm")
    /\ \E o \in Outcomes :
          LET status == Answer(o, "204")
          IN /\ Count(o)
             /\ hub' = IF status = "204"
                       THEN [hub EXCEPT ![st[r].repo_name].perm = "write"]
                       ELSE hub
             /\ Take(r, status, AfterPerm(st[r], status))
    /\ UNCHANGED <<snap, year, nextId>>

(* ensure_pages_site *)

\* commit_bundle is entered: the licence text is formatted with the current year
EnterCommit(loc, yr) ==
    Go([loc EXCEPT !.pc = "file_get", !.w = 1, !.yr = yr], <<"CommitBundle">>)

\* lines 212-231, after the GET
AfterPagesGet(loc, status, build_type, yr) ==
    IF status = "exc" THEN Go(Fail(loc, 500), <<>>)
    ELSE IF status = "404" THEN Go([loc EXCEPT !.pc = "pages_create"], <<>>)
    ELSE IF status = "200"
    THEN IF build_type # "workflow"
         THEN Go([loc EXCEPT !.pc = "pages_update"], <<>>)
         ELSE EnterCommit(loc, yr)
    ELSE Go(Fail(loc, 500), <<>>)                 \* "Unexpected Pages GET"

\* lines 217-220, after the POST
AfterPagesCreate(loc, status, yr) ==
    IF status \notin {"201", "204"} THEN Go(Fail(loc, 500), <<>>)
    ELSE EnterCommit(loc, yr)

\* a failed update raised like a failed create
AfterPagesUpdateRaising(loc, status, yr) ==
    IF status \notin {"200", "204"} THEN Go(Fail(loc, 500), <<>>)
    ELSE EnterCommit(loc, yr)

\* lines 226-229, after the PUT: a status outside (200, 204) is printed
AfterPagesUpdate(loc, status, yr) ==
    IF status = "exc" THEN Go(Fail(loc, 500), <<>>)
    ELSE EnterCommit(loc, yr)

\* the years the clock may show now
Years == { y \in {year, year + 1} : y <= FirstYear + MaxRollover }

\* the clock is read when commit_bundle is entered
ReadClock(res, y) == year' = IF res.loc.pc = "file_get" THEN y ELSE year

PagesGetReply(r) ==
    /\ Replied(r, "pages_get")
    /\ \E o \in Outcomes, y \in Years :
          LET build_type == hub[st[r].repo_name].pages
              status == Answer(o, IF build_type = "absent" THEN "404" ELSE "200")
              res == AfterPagesGet(st[r], status, build_type, y)
          IN /\ Count(o)
             /\ Take(r, status, res)
             /\ ReadClock(res, y)
    /\ UNCHANGED <<hub, snap, nextId>>

PagesCreateReply(r) ==
    /\ Replied(r, "pages_create")
    /\ \E o \in Outcomes, y \in Years :
          LET name == st[r].repo_name
              status == Answer(o, IF hub[name].pages = "absent" THEN "201" ELSE "409")
              res == AfterPagesCreate(st[r], status, y)
          IN /\ Count(o)
             /\ hub' = IF status = "201" THEN [hub EXCEPT ![name].pages = "workflow"] ELSE hub
             /\ Take(r, status, res)
             /\ ReadClock(res, y)
    /\ UNCHANGED <<snap, nextId>>

PagesUpdateReply(r) ==
    /\ Replied(r, "pages_update")
    /\ \E o \in Outcomes, y \in Years :
          LET name == st[r].repo_name
              status == Answer(o, "204")
              res == AfterPagesUpdate(st[r], status, y)
          IN /\ Count(o)
             /\ hub' = IF status = "204" THEN [hub EXCEPT ![name].pages = "workflow"] ELSE hub
             /\ Take(r, status, res)
             /\ ReadClock(res, y)
    /\ UNCHANGED <<snap, nextId>>

----------------------------------------------------------------------------
(* put_file and commit_bundle *)

\* the provider takes a write of a new file without a token, and a write of an
\* existing file only with its current token
PutAccepted(repo, c) ==
    /\ repo.exists
    /\ IF repo.files[c.path].sha = NoSha
       THEN c.sha = NoSha
       ELSE c.sha = repo.files[c.path].sha

\* sha not reset by a read that finds no file: the token of the previous write is kept
AfterFileGetKeepingSha(loc, status, sha) ==
    IF status = "exc" THEN Go(Fail(loc, 500), <<>>)
    ELSE Go([loc EXCEPT !.pc = "file_put", !.sha = IF status = "200" THEN sha ELSE loc.sha],
            <<>>)

\* the token of the read never used: every write sent as the creation of a file
AfterFileGetWithoutSha(loc, status, sha) ==
    IF status = "exc" THEN Go(Fail(loc, 500), <<>>)
    ELSE Go([loc EXCEPT !.pc = "file_put", !.sha = NoSha], <<>>)

\* lines 235-238: sha is the token of a 200 reply, None after any other status
AfterFileGet(loc, status, sha) ==
    IF status = "exc" THEN Go(Fail(loc, 500), <<>>)
    ELSE Go([loc EXCEPT !.pc = "file_put", !.sha = IF status = "200" THEN sha ELSE NoSha],
            <<>>)

\* line 261, and line 335: commit_bundle returns the identifier it holds; the poll starts
Returned(loc, id) ==
    Go([loc EXCEPT !.pc = "poll", !.commit_sha = id, !.elapsed = 0],
       <<"PollAvailability">>)

\* the identifiers returned inside the loop of line 259 dropped
AfterFilePutScaffoldSha(loc, status, id, last) ==
    LET kept == IF loc.w <= 3 THEN id ELSE loc.commit_sha
    IN IF Raises(status) THEN Go(Fail(loc, 500), <<>>)
       ELSE IF loc.w < last
       THEN Go([loc EXCEPT !.pc = "file_get", !.w = loc.w + 1, !.commit_sha = kept], <<>>)
       ELSE Returned(loc, kept)

\* r.raise_for_status() of line 244 left out: a refused write is passed over
AfterFilePutUnchecked(loc, status, id, last) ==
    IF status = "exc" THEN Go(Fail(loc, 500), <<>>)
    ELSE IF loc.w < last
    THEN Go([loc EXCEPT !.pc = "file_get", !.w = loc.w + 1, !.commit_sha = id], <<>>)
    ELSE Returned(loc, id)

\* a refused write answered by reading the file again
AfterFilePutRereading(loc, status, id, last) ==
    IF status = "409" THEN Go([loc EXCEPT !.pc = "file_get"], <<>>)
    ELSE IF Raises(status) THEN Go(Fail(loc, 500), <<>>)
    ELSE IF loc.w < last
    THEN Go([loc EXCEPT !.pc = "file_get", !.w = loc.w + 1, !.commit_sha = id], <<>>)
    ELSE Returned(loc, id)

\* lines 243-245 and 249-261, after the PUT of write number loc.w of `last`
AfterFilePut(loc, status, id, last) ==
    IF Raises(status) THEN Go(Fail(loc, 500), <<>>)
    ELSE IF loc.w < last
    THEN Go([loc EXCEPT !.pc = "file_get", !.w = loc.w + 1, !.commit_sha = id], <<>>)
    ELSE Returned(loc, id)

FileGetReply(r) ==
    /\ Replied(r, "file_get")
    /\ \E o \in Outcomes :
          LET c == Head(inflight[r])
              file == hub[c.repo].files[c.path]
              status == Answer(o, IF file.sha = NoSha THEN "404" ELSE "200")
          IN /\ Count(o)
             /\ Take(r, status, AfterFileGet(st[r], status, file.sha))
    /\ UNCHANGED <<hub, snap, year, nextId>>

FilePutReply(r) ==
    /\ Replied(r, "file_put")
    /\ \E o \in Outcomes :
          LET c == Head(inflight[r])
              status == Answer(o, IF ~PutAccepted(hub[c.repo], c) THEN "409"
                                  ELSE IF c.sha = NoSha THEN "201" ELSE "200")
              stored == status \in {"200", "201"}
              res == AfterFilePut(st[r], status, nextId, Len(WritesOf(r)))
          IN /\ Count(o)
             /\ hub' = IF stored
                       THEN [hub EXCEPT ![c.repo].files[c.path] =
                                            [content |-> b64decode(c.data), sha |-> nextId],
                                        ![c.repo].head = nextId]
                       ELSE hub
             /\ nextId' = IF stored THEN nextId + 1 ELSE nextId
             /\ Take(r, status, res)
             /\ snap' = IF res.loc.pc = "poll"
                        THEN [snap EXCEPT ![r] = hub'[c.repo].files]
                        ELSE snap
    /\ UNCHANGED year

----------------------------------------------------------------------------
(* wait_for_200 *)

\* seconds a GET of the site may take: an immediate reply, or the client's timeout
PollLatencies == {0, PollClientTimeoutS}

\* the derived repository name reported in place of the task
ResponseWithRepoName(b, owner, loc) ==
    [email |-> b.email, task |-> loc.repo_name, round |-> b.round, nonce |-> b.nonce,
     repo_url |-> RepoUrl(owner, loc.repo_name),
     commit_sha |-> loc.commit_sha, pages_url |-> loc.pages_url]

\* lines 337-345
Response(b, owner, loc) ==
    [email |-> b.email, task |-> b.task, round |-> b.round, nonce |-> b.nonce,
     repo_url |-> RepoUrl(owner, loc.repo_name),
     commit_sha |-> loc.commit_sha, pages_url |-> loc.pages_url]

\* wait_for_200 returned `ok`: the response is built and post_with_backoff starts
Polled(b, owner, loc, ok) ==
    Go([loc EXCEPT !.pc = "notify", !.reachable = ok, !.elapsed = 0,
                   !.resp = Response(b, owner, loc), !.tries = 0, !.delay = FirstDelay],
       <<"Notify">>)

\* later than the reply of any GET wait_for_200 can send
Never == PollTimeoutS + PollClientTimeoutS + PollSleepS

\* a site that answers now one way, now the other
FlakySites(latencies) ==
    [latency : latencies, steady : {FALSE}, up_at : {0}, callback : {"flaky"}]

\* the statuses the site may answer with `t` seconds after the poll began ("exc": the
\* GET raised); a steady site answers 200 from site.up_at on and never before
SiteStatuses(s, t) ==
    IF ~s.steady THEN {"200", "404", "exc"}
    ELSE IF t >= s.up_at THEN {"200"}
    ELSE {"404", "exc"}

\* a single GET, no loop
AfterPollOnce(b, owner, loc, status, d) == Polled(b, owner, loc, status = "200")

\* the deadline of wait_for_200 escalated as an error
AfterPollRaising(b, owner, loc, status, d) ==
    IF status = "200" THEN Polled(b, owner, loc, TRUE)
    ELSE IF loc.elapsed + d + PollSleepS < PollTimeoutS
    THEN Go([loc EXCEPT !.elapsed = loc.elapsed + d + PollSleepS], <<>>)
    ELSE Go(Fail(loc, 500), <<>>)

\* lines 267-277, after a GET that took d seconds
AfterPoll(b, owner, loc, status, d) ==
    IF status = "200" THEN Polled(b, owner, loc, TRUE)
    ELSE IF loc.elapsed + d + PollSleepS < PollTimeoutS
    THEN Go([loc EXCEPT !.elapsed = loc.elapsed + d + PollSleepS], <<>>)
    ELSE Polled(b, owner, loc, FALSE)

PollReply(r) ==
    /\ Replied(r, "poll")
    /\ \E status \in SiteStatuses(site, st[r].elapsed + site.latency) :
          Take(r, "none", AfterPoll(body[r], cfg.GITHUB_USERNAME, st[r], status, site.latency))
    /\ UNCHANGED <<hub, snap, year, faults, nextId>>

----------------------------------------------------------------------------
(* post_with_backoff, and the return of api_task *)

\* line 349: post_with_backoff returned `ok`, api_task returns the response
Responded(loc, ok) ==
    Go([loc EXCEPT !.pc = "done", !.delivered = ok, !.status = 200, !.tries = 0, !.delay = 0],
       <<"Respond">>)

\* `delay *= 2` of line 290 left out: the same delay before every attempt
AfterNotifyFixedDelay(loc, status) ==
    IF status = "200" THEN Responded(loc, TRUE)
    ELSE IF loc.tries + 1 < MaxTries
    THEN Go([loc EXCEPT !.tries = @ + 1], <<>>)
    ELSE Responded(loc, FALSE)

\* the strict variant: the request fails when no attempt was answered 200
AfterNotifyStrict(loc, status) ==
    IF status = "200" THEN Responded(loc, TRUE)
    ELSE IF loc.tries + 1 < MaxTries
    THEN Go([loc EXCEPT !.tries = @ + 1, !.delay = @ * BackoffFactor], <<>>)
    ELSE Go(Fail(loc, 500), <<>>)

\* lines 282-291, after a POST
AfterNotify(loc, status) ==
    IF status = "200" THEN Responded(loc, TRUE)
    ELSE IF loc.tries + 1 < MaxTries
    THEN Go([loc EXCEPT !.tries = @ + 1, !.delay = @ * BackoffFactor], <<>>)
    ELSE Responded(loc, FALSE)

\* the statuses the evaluation URL may answer with ("exc": the POST raised)
CallbackStatuses(s) == IF s.callback = "up" THEN {"200"} ELSE {"200", "500", "exc"}

NotifyReply(r) ==
    /\ Replied(r, "notify")
    /\ \E status \in CallbackStatuses(site) :
          Take(r, "none", AfterNotify(st[r], status))
    /\ UNCHANGED <<hub, snap, year, faults, nextId>>

----------------------------------------------------------------------------
(* Specifications *)

Default == Payload("wrong", <<"c">>, "hello", <<>>)

InitHubs == { [n \in RepoNames |-> NoRepo], [n \in RepoNames |-> LegacyRepo(1)] }

InitWith(bodies, sites) ==
    /\ cfg \in Configs
    /\ body \in bodies
    /\ st = [r \in Reqs |-> IdleLocals]
    /\ inflight = [r \in Reqs |-> <<>>]
    /\ log = [r \in Reqs |-> <<>>]
    /\ steps = [r \in Reqs |-> <<>>]
    /\ hub \in InitHubs
    /\ snap = [r \in Reqs |-> [p \in Paths |-> NoFile]]
    /\ site \in sites
    /\ year = FirstYear
    /\ faults = 0
    /\ nextId = 2

Step(r) ==
    \/ Issue(r)
    \/ LlmReply(r)
    \/ RepoGetReply(r)
    \/ RepoCreateReply(r)
    \/ PermReply(r)
    \/ PagesGetReply(r)
    \/ PagesCreateReply(r)
    \/ PagesUpdateReply(r)
    \/ FileGetReply(r)
    \/ FilePutReply(r)
    \/ PollReply(r)
    \/ NotifyReply(r)

\* one request
Init == InitWith({ b \in [Reqs -> Bodies] : b["r2"] = Default }, FlakySites(PollLatencies))

Next == Begin("r1") \/ Step("r1")

Spec == Init /\ [][Next]_vars

\* two publishes of the same request, the second begun when the first is over
SeqLists ==
    { <<>>,
      << Att(INDEX, DataUri(<<"bytes", "p1">>)), Att(DATACSV, DataUri(<<"bytes", "p2">>)) >> }

SeqBodies == { Payload(GoodSecret, <<"a", "/", "b">>, b, a) : b \in Briefs, a \in SeqLists }

InitSeq ==
    InitWith({ b \in [Reqs -> SeqBodies] : b["r1"] = b["r2"] }, FlakySites({PollClientTimeoutS}))

Rerun ==
    /\ st["r1"].pc \in {"done", "failed"}
    /\ Begin("r2")

NextSeq == Begin("r1") \/ Rerun \/ \E r \in Reqs : Step(r)

SpecSeq == InitSeq /\ [][NextSeq]_vars

\* one publish, polling a site that comes up at a given time or never
UpTimes == {0, PollTimeoutS \div 2, PollTimeoutS - PollSleepS - PollClientTimeoutS,
            PollTimeoutS - 1, Never}

PollSites == [latency : {0, PollClientTimeoutS - 1, PollClientTimeoutS}, steady : {TRUE},
              up_at : UpTimes, callback : {"flaky"}]

PollBodies == { b \in [Reqs -> {Payload(GoodSecret, <<"c">>, "hello", <<>>), Default}] :
                    b["r1"] # Default /\ b["r2"] = Default }

InitPoll == InitWith(PollBodies, PollSites)

\* the event loop resumes a coroutine whose reply has arrived, and every call is
\* answered or ends with the client's timeout
SpecPoll == InitPoll /\ [][Next]_vars /\ WF_vars(Next)

\* two requests at once: for the same repository name (derived from different
\* tasks), or for different names
ParBodies ==
    { b \in [Reqs -> { Payload(GoodSecret, t, "hello", <<>>) :
                          t \in {<<"a", "/", "b">>, <<"a", "-", "b">>, <<"c">>} }] :
          /\ b["r1"].task = <<"a", "/", "b">>
          /\ b["r2"].task # <<"a", "/", "b">> }

\* the generation service is not configured and no new year is ahead; the site and
\* the evaluation URL answer 200 at once
InitPar ==
    /\ cfg = Config("tok", "")
    /\ body \in ParBodies
    /\ st = [r \in Reqs |-> IdleLocals]
    /\ inflight = [r \in Reqs |-> <<>>]
    /\ log = [r \in Reqs |-> <<>>]
    /\ steps = [r \in Reqs |-> <<>>]
    /\ hub \in InitHubs
    /\ snap = [r \in Reqs |-> [p \in Paths |-> NoFile]]
    /\ site = [latency |-> 0, steady |-> TRUE, up_at |-> 0, callback |-> "up"]
    /\ year = FirstYear + MaxRollover
    /\ faults = 0
    /\ nextId = 2

StepPar(r) ==
    \/ Begin(r)
    \/ Issue(r)
    \/ RepoGetReply(r)
    \/ RepoCreateReply(r)
    \/ PermReply(r)
    \/ PagesGetReply(r)
    \/ PagesCreateReply(r)
    \/ PagesUpdateReply(r)
    \/ FileGetReply(r)
    \/ FilePutReply(r)
    \/ PollReply(r)
    \/ NotifyReply(r)

NextPar == \E r \in Reqs : StepPar(r)

SpecPar == InitPar /\ [][NextPar]_vars

----------------------------------------------------------------------------
(* Properties *)

Range(f) == { f[i] : i \in DOMAIN f }

Last(f) == f[Len(f)]

Increasing(f) == \A i, j \in DOMAIN f : i < j => f[i] < f[j]

NonDecreasing(f) == \A i, j \in DOMAIN f : i < j => f[i] <= f[j]

\* the place of a step in the pipeline of api_task
Rank(step) ==
    CASE step = "AuthCheck" -> 1
      [] step = "BuildBundle" -> 2
      [] step = "EnsureRepository" -> 3
      [] step = "ReconcilePermissions" -> 4
      [] step = "ReconcileSitePublishing" -> 5
      [] step = "CommitBundle" -> 6
      [] step = "PollAvailability" -> 7
      [] step = "Notify" -> 9
      [] step = "Respond" -> 10

\* the step a remote call belongs to
StepOf(c) ==
    CASE c.svc = "llm" -> "BuildBundle"
      [] c.svc \in {"repos", "user_repos"} -> "EnsureRepository"
      [] c.svc = "perm" -> "ReconcilePermissions"
      [] c.svc = "pages" -> "ReconcileSitePublishing"
      [] c.svc = "contents" -> "CommitBundle"
      [] c.svc = "site" -> "PollAvailability"
      [] c.svc = "eval" -> "Notify"

\* C1: a request whose secret differs from SECRET is answered 403 at once, having
\* entered AuthCheck only, and at no time has it issued a remote call of any kind.
C1_UnauthorizedNoRemoteCall ==
    \A r \in Reqs :
        body[r].secret # cfg.SECRET =>
            /\ log[r] = <<>>
            /\ inflight[r] = <<>>
            /\ st[r].pc \in {"idle", "failed"}
            /\ st[r].pc = "failed" => st[r].status = 403 /\ steps[r] = <<"AuthCheck">>

C1_Witness ==
    \E r \in Reqs : body[r].secret # cfg.SECRET /\ st[r].pc = "failed"

\* C2: on a configured server, an authorized request with an attachment whose URL
\* DATA_URI_RE does not accept fails in BuildBundle and never issues a remote call.
C2_MalformedAttachmentNoRemoteCall ==
    \A r \in Reqs :
        ( /\ body[r].secret = cfg.SECRET
          /\ cfg.GITHUB_TOKEN # ""
          /\ \E i \in DOMAIN body[r].attachments :
                body[r].attachments[i].url \in {NotAUri, PercentUri} ) =>
            /\ log[r] = <<>>
            /\ inflight[r] = <<>>
            /\ st[r].pc \in {"idle", "failed"}
            /\ st[r].pc = "failed" =>
                  st[r].status = 500 /\ steps[r] = <<"AuthCheck", "BuildBundle">>

C2_Witness ==
    \E r \in Reqs :
        /\ st[r].pc = "failed"
        /\ steps[r] = <<"AuthCheck", "BuildBundle">>
        /\ Len(body[r].attachments) = 2
        /\ body[r].attachments[2].url = PercentUri

\* C3: once the bundle is committed and the poll has begun the request never fails;
\* whatever the poll returns, the response holds the repository URL, the pages URL
\* and the identifier of the last write, and the callback is posted before responding.
C3_PollOutcomeNeverFails ==
    \A r \in Reqs :
        "PollAvailability" \in Range(steps[r]) =>
            /\ st[r].pc \in {"poll", "notify", "done"}
            /\ st[r].pc \in {"notify", "done"} =>
                  /\ st[r].reachable \in BOOLEAN
                  /\ st[r].resp.repo_url = RepoUrl(OWNER, RepoName(body[r].task))
                  /\ st[r].resp.pages_url = PagesUrl(OWNER, RepoName(body[r].task))
                  /\ st[r].resp.commit_sha # NoSha
                  /\ st[r].resp.commit_sha = hub[st[r].repo_name].head
            /\ st[r].pc = "done" =>
                  /\ st[r].status = 200
                  /\ Last(log[r]).svc = "eval"

C3_Witness ==
    \E r \in Reqs : st[r].pc = "done" /\ st[r].reachable = FALSE

\* C4: the steps a request enters are in pipeline order, each entered once; at most
\* one of its remote calls is outstanding; every call is issued while its own step is
\* the one last entered, so the calls follow the order of the steps.
C4_LinearPipeline ==
    \A r \in Reqs :
        /\ Increasing([i \in DOMAIN steps[r] |-> Rank(steps[r][i])])
        /\ Len(inflight[r]) <= 1
        /\ inflight[r] # <<>> => StepOf(inflight[r][1]) = Last(steps[r])
        /\ NonDecreasing([i \in DOMAIN log[r] |-> Rank(StepOf(log[r][i]))])

C4_Witness ==
    \E r \in Reqs :
        /\ st[r].pc = "done"
        /\ Len(steps[r]) = 9
        /\ \E i \in DOMAIN log[r] : log[r][i].svc = "llm"
        /\ \E i \in DOMAIN log[r] : log[r][i] = Call("PUT", "pages", st[r].repo_name, "", NoSha, <<>>)

\* C5 (as claimed): whatever the workflow-permission call ends with, the request
\* goes on to ReconcileSitePublishing once that call is over.
C5_PermOutcomeNeverAborts ==
    \A r \in Reqs :
        ( /\ log[r] # <<>>
          /\ Last(log[r]).svc = "perm"
          /\ inflight[r] = <<>> ) => st[r].pc = "pages_get"

PathAt(r) == WritesOf(r)[st[r].w][1]

\* C7 (as claimed): the write carries a version token exactly when the file exists.
C7_TokenIffFileExists ==
    \A r \in Reqs :
        st[r].pc = "file_put" =>
            (st[r].sha # NoSha <=> hub[st[r].repo_name].files[PathAt(r)].sha # NoSha)

\* C7 (amended): every write of a file directly follows, in the calls of the request,
\* a read of the same path; the write carries a token exactly when that read was
\* answered 200, and the token is then the file's current one; after a read answered
\* 404 the file is absent and no token is sent; after any other status no token is
\* sent whether or not the file exists.
C7_TokenFromPrecedingRead ==
    \A r \in Reqs :
        /\ \A i \in DOMAIN log[r] :
              (log[r][i].op = "PUT" /\ log[r][i].svc = "contents") =>
                  /\ i > 1
                  /\ log[r][i - 1] =
                        Call("GET", "contents", log[r][i].repo, log[r][i].path, NoSha, <<>>)
        /\ st[r].pc = "file_put" =>
              LET file == hub[st[r].repo_name].files[PathAt(r)]
              IN /\ st[r].sha # NoSha <=> st[r].reply = "200"
                 /\ st[r].reply = "200" => st[r].sha = file.sha
                 /\ st[r].reply = "404" => file.sha = NoSha
                 /\ inflight[r] # <<>> =>
                       /\ inflight[r][1].sha = st[r].sha
                       /\ inflight[r][1].path = PathAt(r)
                       /\ inflight[r][1].op = "PUT"

C7_Witness ==
    \E r \in Reqs :
        /\ st[r].pc = "file_put"
        /\ inflight[r] # <<>>
        /\ PathAt(r) = README
        /\ st[r].reply = "200"
        /\ inflight[r][1].sha # NoSha
        /\ inflight[r][1].sha = hub[st[r].repo_name].files[README].sha
        /\ inflight[r][1].sha # hub[st[r].repo_name].head

\* the paths and bodies of the file writes a request has issued, in order
PutsOf(h) ==
    LET puts == SelectSeq(h, LAMBDA c : c.op = "PUT" /\ c.svc = "contents")
    IN [i \in DOMAIN puts |-> <<puts[i].path, puts[i].data>>]

\* the generated files in their order, then the attachments they do not cover
BundleOrder(generated, atts) ==
    LET enc(d) == [i \in DOMAIN d |-> <<d[i][1], b64encode_bytes(d[i][2])>>]
    IN enc(generated) \o enc(SelectSeq(atts, LAMBDA kv : ~Has(generated, kv[1])))

IsPrefix(a, b) == Len(a) <= Len(b) /\ \A i \in DOMAIN a : a[i] = b[i]

\* C8: the file writes of a request are, in this order, LICENSE, README.md, the
\* workflow, the generated files in their order, then the attachments whose path no
\* generated file has; at any time a prefix of that list has been issued, and when
\* commit_bundle has returned all of it has.
C8_WriteOrder ==
    \A r \in Reqs :
        LET puts == PutsOf(log[r])
            bundle == BundleOrder(st[r].generated, parse_attachments(body[r].attachments))
            paths == <<LICENSE, README, WORKFLOW>> \o [i \in DOMAIN bundle |-> bundle[i][1]]
        IN /\ IsPrefix([i \in DOMAIN puts |-> puts[i][1]], paths)
           /\ \A i \in DOMAIN puts : i > 3 => puts[i] = bundle[i - 3]
           /\ st[r].pc \in {"poll", "notify", "done"} => Len(puts) = Len(paths)

C8_Witness ==
    \E r \in Reqs :
        /\ st[r].pc = "done"
        /\ Has(parse_attachments(body[r].attachments), INDEX)
        /\ Len(PutsOf(log[r])) = 5
        /\ PutsOf(log[r])[5] = <<DATACSV, b64encode_bytes(<<"bytes", "p2">>)>>
        /\ PutsOf(log[r])[4] = <<INDEX, b64encode_bytes(<<"generic", "hello">>)>>

\* C9: when commit_bundle has returned, the identifier it returned is the one the
\* provider gave for the last write (the repository's newest commit, which wrote the
\* last path of the list), no file written earlier carries it, and the response
\* reports it as commit_sha.
C9_LastWriteCommitSha ==
    \A r \in Reqs :
        st[r].pc \in {"poll", "notify", "done"} =>
            LET repo == hub[st[r].repo_name]
                last == Last(WritesOf(r))[1]
            IN /\ st[r].commit_sha = repo.head
               /\ st[r].commit_sha = repo.files[last].sha
               /\ \A p \in Paths \ {last} : repo.files[p].sha # st[r].commit_sha
               /\ st[r].pc \in {"notify", "done"} => st[r].resp.commit_sha = st[r].commit_sha

C9_Witness ==
    \E r \in Reqs :
        /\ st[r].pc = "done"
        /\ Len(WritesOf(r)) = 6
        /\ st[r].resp.commit_sha = hub[st[r].repo_name].files[DATACSV].sha

CommitDone(r) == st[r].pc \in {"poll", "notify", "done"}

\* two requests whose calls of commit_bundle have the same arguments
SameBundle(q, r) ==
    /\ st[q].files = st[r].files
    /\ st[q].repo_name = st[r].repo_name
    /\ body[q].task = body[r].task
    /\ body[q].brief = body[r].brief
    /\ body[q].round = body[r].round

Contents(files) == [p \in Paths |-> files[p].content]

\* the contents a list of writes leaves in a repository that held nothing else
Written(writes) ==
    [p \in Paths |->
        IF \E i \in DOMAIN writes : writes[i][1] = p
        THEN LET i == CHOOSE i \in DOMAIN writes :
                        /\ writes[i][1] = p
                        /\ \A j \in DOMAIN writes : writes[j][1] = p => j <= i
             IN writes[i][2]
        ELSE <<>>]

\* C10 (as claimed): when commit_bundle has run to its end twice, one run after the
\* other, with the same arguments, the repository's contents after the second run
\* are its contents after the first.
C10_RerunSameContents ==
    (CommitDone("r1") /\ CommitDone("r2") /\ SameBundle("r1", "r2")) =>
        Contents(snap["r2"]) = Contents(snap["r1"])

\* C10 (amended): with one publish after the other on a repository, a write that
\* follows an answered read is never refused for its version token; a run of
\* commit_bundle that reaches its end, be it the first, a repetition with the same
\* arguments or a restart after a run that failed part-way, leaves exactly the
\* contents of its list of writes; the contents after a repetition equal those after
\* the first run on every path but LICENSE, and on LICENSE too when both runs read
\* the same year from the clock; every file the repetition wrote has a new token.
C10_RerunSameContentsInYear ==
    /\ \A r \in Reqs :
          (st[r].pc = "file_put" /\ st[r].reply \in {"200", "404"}) =>
              PutAccepted(hub[st[r].repo_name], CallAt(r))
    /\ \A r \in Reqs :
          (CommitDone(r) /\ SameBundle("r1", "r2")) =>
              Contents(snap[r]) = Written(WritesOf(r))
    /\ (CommitDone("r1") /\ CommitDone("r2") /\ SameBundle("r1", "r2")) =>
          /\ \A p \in Paths \ {LICENSE} : snap["r2"][p].content = snap["r1"][p].content
          /\ st["r1"].yr = st["r2"].yr => Contents(snap["r2"]) = Contents(snap["r1"])
          /\ \A i \in DOMAIN WritesOf("r2") :
                snap["r2"][WritesOf("r2")[i][1]].sha # snap["r1"][WritesOf("r2")[i][1]].sha

C10_Witness ==
    /\ st["r1"].pc = "done"
    /\ st["r2"].pc = "done"
    /\ SameBundle("r1", "r2")
    /\ Has(st["r2"].files, README)
    /\ Contents(snap["r2"]) = Contents(snap["r1"])
    /\ snap["r2"][README].sha > snap["r1"][README].sha

\* a restart after a run that failed part-way reaches the contents of a whole run
C10_RestartReached ==
    /\ st["r1"].pc = "failed"
    /\ st["r1"].w > 2
    /\ st["r2"].pc = "done"
    /\ SameBundle("r1", "r2")
    /\ Contents(snap["r2"]) = Written(WritesOf("r2"))

\* C11: when the provider answers the k-th file write of commit_bundle with a failure
\* status, the request fails there with a 500: each file written by the k-1 writes
\* before it holds the content last written to it, the refused write is the last call
\* the request ever issued (no later write, no poll, no notification), and the
\* repository's newest commit is still the one of write k-1.
C11_FailedWriteStopsRequest ==
    \A r \in Reqs :
        ( /\ log[r] # <<>>
          /\ Last(log[r]).op = "PUT"
          /\ Last(log[r]).svc = "contents"
          /\ inflight[r] = <<>>
          /\ st[r].reply \in {"409", "422", "500"} ) =>
            LET k == st[r].w
                before == SubSeq(WritesOf(r), 1, k - 1)
                repo == hub[st[r].repo_name]
            IN /\ st[r].pc = "failed"
               /\ st[r].status = 500
               /\ Last(steps[r]) = "CommitBundle"
               /\ Len(PutsOf(log[r])) = k
               /\ Last(log[r]).path = WritesOf(r)[k][1]
               /\ \A i \in DOMAIN log[r] : log[r][i].svc \notin {"site", "eval"}
               /\ \A i \in DOMAIN before :
                     repo.files[before[i][1]].content = Written(before)[before[i][1]]
               /\ k > 1 => repo.head = repo.files[before[k - 1][1]].sha

C11_Witness ==
    \E r \in Reqs :
        /\ st[r].pc = "failed"
        /\ st[r].w = 4
        /\ Last(log[r]).op = "PUT"
        /\ st[r].reply = "500"
        /\ hub[st[r].repo_name].files[WORKFLOW].content = PAGES_WORKFLOW
        /\ hub[st[r].repo_name].files[LICENSE].content = MIT_LICENSE(st[r].yr, OWNER)
        /\ hub[st[r].repo_name].files[INDEX].content = <<>>

\* wait_for_200 returns in this step
PollReturns(r) == st[r].pc = "poll" /\ st'[r].pc = "notify"

\* C12 (as claimed): polling a site that starts answering 200 at a time t before the
\* deadline, wait_for_200 returns true, at or after t and before the deadline.
C12_TrueBeforeDeadline ==
    [][\A r \in Reqs :
          (PollReturns(r) /\ site.steady /\ site.up_at < PollTimeoutS) =>
              /\ st'[r].reachable = TRUE
              /\ site.up_at <= st[r].elapsed + site.latency
              /\ st[r].elapsed + site.latency < PollTimeoutS]_vars

\* C12 (amended): wait_for_200 always returns. It returns true only on a GET sent
\* before the deadline and answered at or after t, so less than one client timeout
\* after the deadline; it returns false only at or after the deadline, every GET
\* having been answered before t. It returns true whenever t is at least one sleep
\* and one client timeout before the deadline, and false when the site never comes up.
C12_PollTerminates ==
    /\ [][\A r \in Reqs :
            (PollReturns(r) /\ site.steady) =>
                LET answered == st[r].elapsed + site.latency
                IN /\ st'[r].reachable = TRUE =>
                         /\ site.up_at <= answered
                         /\ st[r].elapsed < PollTimeoutS
                         /\ answered < PollTimeoutS + PollClientTimeoutS
                   /\ st'[r].reachable = FALSE =>
                         /\ answered + PollSleepS >= PollTimeoutS
                         /\ answered < site.up_at
                   /\ site.up_at <= PollTimeoutS - PollSleepS - PollClientTimeoutS =>
                         st'[r].reachable = TRUE
                   /\ site.up_at = Never => st'[r].reachable = FALSE]_vars
    /\ \A r \in Reqs : (st[r].pc = "poll") ~> (st[r].pc = "notify")

C12_Witness ==
    \E r \in Reqs :
        /\ st[r].pc = "done"
        /\ site.steady
        /\ site.up_at = PollTimeoutS - 1
        /\ site.latency = PollClientTimeoutS - 1
        /\ st[r].reachable = TRUE

RECURSIVE Pow(_, _)
Pow(b, n) == IF n = 0 THEN 1 ELSE b * Pow(b, n - 1)

\* the longest sleep between two attempts of post_with_backoff
DelayCap == FirstDelay * Pow(BackoffFactor, MaxTries - 2)

\* the reply to an attempt of post_with_backoff arrives in this step
NotifyAnswered(r) == st[r].pc = "notify" /\ inflight[r] # <<>> /\ inflight'[r] = <<>>

\* C13: post_with_backoff returns false only when max_tries attempts have failed, and
\* after a failed attempt that is not the last it sleeps and tries again, so a target
\* that always fails gets exactly max_tries attempts; the sleep before attempt n+1 is
\* FirstDelay * BackoffFactor^(n-1), longer than the one before it and never longer
\* than the delay before the last attempt.
C13_BackoffBound ==
    [][\A r \in Reqs :
          /\ st[r].pc = "notify" =>
                /\ st[r].tries < MaxTries
                /\ st[r].delay = FirstDelay * Pow(BackoffFactor, st[r].tries)
          /\ NotifyAnswered(r) =>
                \/ st'[r].pc = "done" /\ st'[r].delivered = TRUE
                \/ /\ st'[r].pc = "done"
                   /\ st'[r].delivered = FALSE
                   /\ st[r].tries + 1 = MaxTries
                \/ /\ st'[r].pc = "notify"
                   /\ st'[r].tries = st[r].tries + 1
                   /\ st'[r].tries < MaxTries
                   /\ st[r].delay <= DelayCap
                   /\ st'[r].delay > st[r].delay]_vars

C13_Witness ==
    \E r \in Reqs :
        /\ st[r].pc = "notify"
        /\ inflight[r] # <<>>
        /\ st[r].tries = MaxTries - 1
        /\ st[r].delay = BackoffFactor * DelayCap

\* the reply to the call r sent at call site `pc` arrives in this step
AnsweredAt(r, pc) == st[r].pc = pc /\ inflight[r] # <<>> /\ inflight'[r] = <<>>

\* r has sent a repository create
SentCreate(r) == \E i \in DOMAIN log[r] : log[r][i].svc = "user_repos"

\* C14: ensure_repo sends the create exactly when its lookup is answered 404; a
\* lookup answered 200 leads on to the permission step, and the lookup changes nothing
\* at the provider; any other answer to the lookup, and any answer to the create that
\* is not a success, fails the request with no permission, site or file call sent.
\* With one publish after the other on the same name, a request that follows one
\* that got past ensure_repo never sends a create, and a repository never stops
\* existing, so at most one create is ever accepted.
C14_CreateIffNotFound ==
    /\ [](\A r \in Reqs :
            /\ st[r].pc = "repo_create" => st[r].reply = "404"
            /\ SentCreate(r) =>
                  \E i \in DOMAIN log[r] :
                      /\ log[r][i].svc = "repos"
                      /\ log[r][i + 1].svc = "user_repos"
                      /\ log[r][i + 1].repo = log[r][i].repo
            /\ (st[r].pc = "failed" /\ steps[r] # <<>> /\ Last(steps[r]) = "EnsureRepository") =>
                  \A i \in DOMAIN log[r] : log[r][i].svc \in {"llm", "repos", "user_repos"}
            /\ "ReconcilePermissions" \in Range(steps[r]) => hub[st[r].repo_name].exists)
    /\ []( ( /\ "ReconcilePermissions" \in Range(steps["r1"])
             /\ RepoName(body["r2"].task) = st["r1"].repo_name ) => ~SentCreate("r2") )
    /\ [][\A r \in Reqs :
            /\ AnsweredAt(r, "repo_get") =>
                  /\ hub' = hub
                  /\ st'[r].pc = "repo_create" <=> st'[r].reply = "404"
                  /\ st'[r].pc = "perm" <=> st'[r].reply = "200"
                  /\ st'[r].pc = "failed" <=> st'[r].reply \notin {"200", "404"}
            /\ AnsweredAt(r, "repo_create") =>
                  /\ st'[r].pc = "perm" <=> st'[r].reply = "201"
                  /\ st'[r].pc = "failed" <=> st'[r].reply # "201"
                  /\ st'[r].reply # "201" => hub' = hub
            /\ \A n \in RepoNames : hub[n].exists => hub'[n].exists]_vars

C14_Witness ==
    /\ st["r1"].pc = "done"
    /\ st["r2"].pc = "done"
    /\ st["r2"].repo_name = st["r1"].repo_name
    /\ SentCreate("r1")
    /\ ~SentCreate("r2")
    /\ \E i \in DOMAIN log["r2"] : log["r2"][i].svc = "repos"

\* C15 (as claimed): a process whose GITHUB_TOKEN or GITHUB_USERNAME is missing serves
\* no request: none is ever taken up and answered with an error.
C15_MissingConfigNeverServes ==
    \A r \in Reqs : ConfigMissing => st[r].pc = "idle"

\* the calls r has sent to the evaluation URL
Notifications(r) == SelectSeq(log[r], LAMBDA c : c.svc = "eval")

\* C16: once a request has reached Notify its result is fixed: every attempt posts the
\* same payload, the JSON form of the very document the caller is answered with, and
\* the fields email, task, round and nonce of that document are the request's own.
C16_SamePayloadPostedAndReturned ==
    \A r \in Reqs :
        /\ Notifications(r) # <<>> => st[r].pc \in {"notify", "done"}
        /\ st[r].pc \in {"notify", "done"} =>
              /\ \A i \in DOMAIN Notifications(r) :
                    Notifications(r)[i] =
                        Call("POST", "eval", <<>>, "", NoSha, <<"json", st[r].resp>>)
              /\ inflight[r] # <<>> => inflight[r][1].data = <<"json", st[r].resp>>
              /\ st[r].resp.email = body[r].email
              /\ st[r].resp.task = body[r].task
              /\ st[r].resp.round = body[r].round
              /\ st[r].resp.nonce = body[r].nonce
              /\ DOMAIN st[r].resp =
                    {"email", "task", "round", "nonce", "repo_url", "commit_sha", "pages_url"}

C16_Witness ==
    \E r \in Reqs :
        /\ st[r].pc = "done"
        /\ st[r].delivered = FALSE
        /\ body[r].task = <<"a", "/", "b">>
        /\ st[r].repo_name # body[r].task
        /\ Notifications(r) = << Call("POST", "eval", <<>>, "", NoSha, <<"json", st[r].resp>>) >>

\* the value a dict holds for key k
ValueAt(d, k) == d[CHOOSE i \in DOMAIN d : d[i][1] = k][2]

\* the bytes of the last attachment of the request that is named p
AttachedAt(atts, p) ==
    LET i == CHOOSE i \in DOMAIN atts :
                 /\ atts[i].name = p
                 /\ \A j \in DOMAIN atts : atts[j].name = p => j <= i
    IN atts[i].url.data[2]

\* the bundle of r has been built
BundleBuilt(r) == "EnsureRepository" \in Range(steps[r])

\* C17: in the bundle api_task hands to commit_bundle every path has one entry; a
\* path of the generated map (from the generation service or the template) holds the
\* generated content, whether or not an attachment has that name; every attachment's
\* name is a path of the bundle and, when the generated map lacks it, holds the
\* attachment's bytes; the bundle has no other path.
C17_GeneratedWinsOverAttachment ==
    \A r \in Reqs :
        BundleBuilt(r) =>
            LET files == st[r].files
                gen == st[r].generated
                atts == body[r].attachments
            IN /\ \A i, j \in DOMAIN files : files[i][1] = files[j][1] => i = j
               /\ Has(gen, INDEX)
               /\ \A i \in DOMAIN gen : /\ Has(files, gen[i][1])
                                        /\ ValueAt(files, gen[i][1]) = gen[i][2]
               /\ \A i \in DOMAIN atts :
                     /\ Has(files, atts[i].name)
                     /\ ~Has(gen, atts[i].name) =>
                           ValueAt(files, atts[i].name) = AttachedAt(atts, atts[i].name)
               /\ \A i \in DOMAIN files :
                     \/ Has(gen, files[i][1])
                     \/ \E j \in DOMAIN atts : atts[j].name = files[i][1]

C17_Witness ==
    \E r \in Reqs :
        /\ st[r].pc = "done"
        /\ Len(body[r].attachments) = 3
        /\ body[r].attachments[2] = Att(README, DataUri(<<"bytes", "p2">>))
        /\ ValueAt(st[r].files, README) = <<"gen", "readme">>
        /\ ValueAt(st[r].files, DATACSV) = <<"bytes", "p3">>

\* C18: whatever answers the notification gets, the request does not fail: each
\* answer leaves the repositories and the response document as they were, and leads
\* to another attempt or to the return of the response with status 200; a request
\* whose attempts were all refused returns the document it built before notifying,
\* with the repository URL, the pages URL and the commit identifier of its publish.
C18_ExhaustionIsSwallowed ==
    /\ [](\A r \in Reqs :
            "Notify" \in Range(steps[r]) =>
                /\ st[r].pc \in {"notify", "done"}
                /\ st[r].resp = [email |-> body[r].email, task |-> body[r].task,
                                  round |-> body[r].round, nonce |-> body[r].nonce,
                                  repo_url |-> RepoUrl(cfg.GITHUB_USERNAME, st[r].repo_name),
                                  commit_sha |-> st[r].commit_sha,
                                  pages_url |-> st[r].pages_url]
                /\ st[r].pc = "done" =>
                      /\ st[r].status = 200
                      /\ st[r].delivered \in BOOLEAN
                      /\ Last(steps[r]) = "Respond")
    /\ [][\A r \in Reqs :
            NotifyAnswered(r) =>
                /\ hub' = hub
                /\ st'[r].resp = st[r].resp
                /\ st'[r].commit_sha = st[r].commit_sha
                /\ st'[r].pc \in {"notify", "done"}
                /\ (st[r].tries + 1 = MaxTries) => st'[r].pc = "done"]_vars

C18_Witness ==
    \E r \in Reqs :
        /\ st[r].pc = "done"
        /\ st[r].status = 200
        /\ st[r].delivered = FALSE
        /\ st[r].resp.commit_sha = hub[st[r].repo_name].head
        /\ hub[st[r].repo_name].pages = "workflow"

\* the scaffolding content commit_bundle of r writes at path p
Scaffold(r, p) ==
    CASE p = LICENSE -> MIT_LICENSE(st[r].yr, cfg.GITHUB_USERNAME)
      [] p = README -> Readme(st[r].repo_name, body[r].task, body[r].round, body[r].brief,
                              st[r].pages_url)
      [] p = WORKFLOW -> PAGES_WORKFLOW

\* C19: when the commit_bundle of a request has returned, the only writer of its
\* repository, every path of the merged bundle holds the bundle's content, the paths
\* LICENSE, README.md and .github/workflows/pages.yml included; each of these three
\* that the bundle lacks holds the scaffolding content; a path written by neither
\* is as it was, absent.
C19_BundleContentPersisted ==
    \A r \in Reqs :
        CommitDone(r) =>
            LET repo == hub[st[r].repo_name]
                files == st[r].files
            IN \A p \in Paths :
                  IF Has(files, p) THEN repo.files[p].content = ValueAt(files, p)
                  ELSE IF p \in {LICENSE, README, WORKFLOW}
                  THEN repo.files[p].content = Scaffold(r, p)
                  ELSE repo.files[p] = NoFile

C19_Witness ==
    \E r \in Reqs :
        /\ st[r].pc = "done"
        /\ Has(st[r].files, README)
        /\ ~Has(st[r].files, DATACSV)
        /\ hub[st[r].repo_name].files[README].content = <<"gen", "readme">>
        /\ hub[st[r].repo_name].files[LICENSE].content = MIT_LICENSE(st[r].yr, OWNER)
        /\ hub[st[r].repo_name].files[DATACSV] = NoFile

\* the repository name a request derives
OwnRepo(r) == RepoName(body[r].task)

\* the write r has in flight carries a token that is not the file's current one
StaleWrite(r) ==
    /\ st[r].pc = "file_put"
    /\ inflight[r] # <<>>
    /\ inflight[r][1].sha # hub[inflight[r][1].repo].files[inflight[r][1].path].sha

\* C20: with two requests running at once, under every interleaving of their calls:
\* a file write whose token is not the file's current one when it reaches the
\* provider (the other request wrote the file after this one read it) is refused
\* and changes nothing, and the request that sent it fails with a 500; a failed
\* request sends nothing more, so no later write, poll or notification; every call
\* of a request names the repository derived from its own task, and a repository
\* changes only in a step of a request that derives its name.
C20_StaleWriteRejected ==
    /\ [](\A r \in Reqs :
            /\ \A i \in DOMAIN log[r] :
                  /\ log[r][i].svc \in {"repos", "user_repos", "perm", "pages", "contents"} =>
                        log[r][i].repo = OwnRepo(r)
                  /\ log[r][i].svc = "site" =>
                        log[r][i].data = PagesUrl(cfg.GITHUB_USERNAME, OwnRepo(r))
            /\ (st[r].pc = "failed" /\ steps[r] # <<>> /\ Last(steps[r]) = "CommitBundle") =>
                  /\ \A i \in DOMAIN log[r] : log[r][i].svc \notin {"site", "eval"}
                  /\ Len(PutsOf(log[r])) \in {st[r].w - 1, st[r].w})
    /\ [][\A r \in Reqs :
            /\ (StaleWrite(r) /\ inflight'[r] = <<>>) =>
                  /\ hub' = hub
                  /\ st'[r].pc = "failed"
                  /\ st'[r].status = 500
                  /\ st'[r].reply \in {"409", "500", "exc"}
            /\ st[r].pc = "failed" =>
                  /\ st'[r] = st[r]
                  /\ log'[r] = log[r]
                  /\ inflight'[r] = inflight[r]
            /\ \A n \in RepoNames :
                  (hub'[n] # hub[n] /\ OwnRepo(r) # n) =>
                      \E q \in Reqs \ {r} : st'[q] # st[q] /\ OwnRepo(q) = n]_vars

C20_Witness ==
    \E r \in Reqs : \E q \in Reqs \ {r} :
        /\ faults = 0
        /\ OwnRepo(q) = OwnRepo(r)
        /\ st[r].pc = "failed"
        /\ st[r].reply = "409"
        /\ st[r].w = 2
        /\ st[r].sha # NoSha
        /\ hub[OwnRepo(r)].files[README].content = Scaffold(q, README)
        /\ Scaffold(q, README) # Scaffold(r, README)
        /\ st[q].pc = "done"

====
